---- MODULE Spec2Model ----
(***************************************************************************)
(* Model of src/core/services/ens/scripts/text-records.ts: the four ENS    *)
(* convenience operations getEnsTextRecord, setEnsTextRecord,              *)
(* setEnsAddressRecord and getRecentRegistrations, each an async function  *)
(* whose body is one try/catch.  An invocation runs its synchronous prefix *)
(* up to the first await, then one step per settled await.  The chain      *)
(* client is the environment: it answers or rejects every call, and mines  *)
(* submitted transactions on its own schedule.                             *)
(***************************************************************************)
EXTENDS Integers, Sequences, FiniteSets, TLC

VARIABLES pc, op, args, env, normalizedEns, calls, outcome, result,
          thrown, errMsg, nextTx, pendingTxs, minedTxs

vars == <<pc, op, args, env, normalizedEns, calls, outcome, result,
          thrown, errMsg, nextTx, pendingTxs, minedTxs>>

-----------------------------------------------------------------------------
(* Bounds of the exploration *)

MaxLogs == 3
MaxCount == 3
MaxTx == 2

-----------------------------------------------------------------------------
(* JavaScript values *)

JNull == [t |-> "null"]
JStr(s) == [t |-> "string", s |-> s]
JNum(n) == [t |-> "number", n |-> n]
JBigInt(n) == [t |-> "bigint", n |-> n]

\* ToBoolean: null and the empty string are falsy, other strings are truthy
Truthy(v) ==
  CASE v.t = "null" -> FALSE
    [] v.t = "string" -> Len(v.s) > 0
    [] v.t = "number" -> v.n # 0
    [] OTHER -> TRUE

Max(a, b) == IF a >= b THEN a ELSE b
Min(a, b) == IF a <= b THEN a ELSE b

Last(s) == s[Len(s)]

RECURSIVE Reverse(_)
Reverse(s) == IF s = << >> THEN << >> ELSE Append(Reverse(Tail(s)), Head(s))

\* Array.prototype.slice(start) with a relative start index
JsSlice(s, start) ==
  LET len == Len(s)
      k == IF start < 0 THEN Max(len + start, 0) ELSE Min(start, len)
  IN SubSeq(s, k + 1, len)

-----------------------------------------------------------------------------
(* Names, keys, text values *)

Undefined == "<undefined>"

Names == {"Alice.eth", "alice.eth", "a b.eth"}
Keys == {"url"}
TextValues == {JNull, JStr(""), JStr("hi")}

\* viem normalize(): throws on a disallowed character, case-folds otherwise
CanNormalize(name) == name # "a b.eth"
Normalize(name) == IF name = "Alice.eth" THEN "alice.eth" ELSE name
namehash(n) == <<"node", n>>

-----------------------------------------------------------------------------
(* Addresses: strings as sequences of characters *)

AddrHexLen == 40
HexChars == {"0", "1", "2", "3", "4", "5", "6", "7", "8", "9",
             "a", "b", "c", "d", "e", "f"}

Rep(c, n) == [i \in 1..n |-> c]
ZeroAddress == JStr(<<"0", "x">> \o Rep("0", AddrHexLen))
\* 0x00000000000C2E074eC69A0dFb2997BA6C7d2e1e
registryAddress ==
  JStr(<<"0", "x">> \o Rep("0", 11) \o
       <<"C", "2", "E", "0", "7", "4", "e", "C", "6", "9", "A", "0", "d", "F", "b",
         "2", "9", "9", "7", "B", "A", "6", "C", "7", "d", "2", "e", "1", "e">>)

\* viem isAddress() on lower-case input: ^0x[0-9a-f]{40}$
isAddress(a) ==
  /\ a.t = "string"
  /\ Len(a.s) = AddrHexLen + 2
  /\ a.s[1] = "0" /\ a.s[2] = "x"
  /\ \A i \in 3..Len(a.s) : a.s[i] \in HexChars

Addresses ==
  { JNull,
    JStr(<< >>),
    JStr(<<"0", "x">> \o Rep("a", AddrHexLen)),
    JStr(<<"0", "x">> \o Rep("a", AddrHexLen - 1)),
    JStr(<<"0", "x">> \o Rep("a", AddrHexLen - 1) \o <<"g">>),
    JStr(Rep("a", AddrHexLen + 2)) }

-----------------------------------------------------------------------------
(* Thrown values and the error messages built from them *)

ErrorObj(m) == [instanceOfError |-> TRUE, message |-> m, string |-> <<"Error:">> \o m]
Thrown(s) == [instanceOfError |-> FALSE, message |-> << >>, string |-> s]
NoThrown == [instanceOfError |-> FALSE, message |-> << >>, string |-> << >>]

NormalizeError == ErrorObj(<<"Disallowed character">>)
ClientError == ErrorObj(<<"Unsupported network">>)
Rejections == {ErrorObj(<<"execution reverted">>), Thrown(<<"socket hang up">>)}

\* error instanceof Error ? error.message : String(error)
ErrorText(e) == IF e.instanceOfError THEN e.message ELSE e.string

\* Wrap with the reason left out of the message
Wrap_dropsReason(o, a, message) ==
  <<"Failed", a.name, "Reason:">>
    \o <<CASE o = "getEnsTextRecord" -> "GetEnsTextRecord_General_001"
            [] o = "setEnsTextRecord" -> "SetEnsTextRecord_General_001"
            [] o = "setEnsAddressRecord" -> "SetEnsAddressRecord_General_001"
            [] o = "getRecentRegistrations" -> "GetRecentRegistrations_General_001">>

Wrap(o, a, message) ==
  CASE o = "getEnsTextRecord" ->
         <<"Failed to get ENS text record", a.key, "for", a.name, "Reason:">>
           \o message \o <<"GetEnsTextRecord_General_001">>
    [] o = "setEnsTextRecord" ->
         <<"Failed to set ENS text record", a.key, "for", a.name, "Reason:">>
           \o message \o <<"SetEnsTextRecord_General_001">>
    [] o = "setEnsAddressRecord" ->
         <<"Failed to set ENS address record for", a.name, "Reason:">>
           \o message \o <<"SetEnsAddressRecord_General_001">>
    [] o = "getRecentRegistrations" ->
         <<"Failed to get recent registrations.", "Reason:">>
           \o message \o <<"GetRecentRegistrations_General_001">>

-----------------------------------------------------------------------------
(* Results of one step of a function body: the next await, a return value  *)
(* or a throw, together with the local normalizedEns after the step        *)

Throw(e, ens) == [kind |-> "throw", error |-> e, ens |-> ens]
Call(c, ens) == [kind |-> "call", call |-> c, ens |-> ens]
Return(v, ens) == [kind |-> "return", value |-> v, ens |-> ens]

-----------------------------------------------------------------------------
(* getEnsTextRecord *)

\* getEnsTextRecord_start querying the name as the caller gave it
getEnsTextRecord_start_unnormalized(name, key, pubOk) ==
  IF ~pubOk THEN Throw(ClientError, name)
  ELSE Call([fn |-> "getEnsText", name |-> name, key |-> key], name)

getEnsTextRecord_start(name, key, pubOk) ==
  IF ~CanNormalize(name) THEN Throw(NormalizeError, Undefined)
  ELSE LET ens == Normalize(name) IN
    IF ~pubOk THEN Throw(ClientError, ens)
    ELSE Call([fn |-> "getEnsText", name |-> ens, key |-> key], ens)

getEnsTextRecord_gotText(ens, text) == Return(text, ens)

-----------------------------------------------------------------------------
(* setEnsTextRecord *)

StartsWith0x(s) == Len(s) >= 2 /\ s[1] = "0" /\ s[2] = "x"

\* setEnsTextRecord_start without the check of walletClient.account
setEnsTextRecord_start_noAccountCheck(name, key, pubOk, walOk, account) ==
  IF ~CanNormalize(name) THEN Throw(NormalizeError, Undefined)
  ELSE LET ens == Normalize(name) IN
    IF ~pubOk \/ ~walOk THEN Throw(ClientError, ens)
    ELSE Call([fn |-> "getEnsResolver", name |-> ens], ens)

setEnsTextRecord_start(name, key, pubOk, walOk, account) ==
  IF ~CanNormalize(name) THEN Throw(NormalizeError, Undefined)
  ELSE LET ens == Normalize(name) IN
    IF ~pubOk \/ ~walOk THEN Throw(ClientError, ens)
    ELSE IF ~Truthy(account)
      THEN Throw(ErrorObj(<<"No wallet account available",
                            "SetEnsTextRecord_NoAccount_001">>), ens)
      ELSE Call([fn |-> "getEnsResolver", name |-> ens], ens)

\* setEnsTextRecord_gotResolver passing value as it came, null included
setEnsTextRecord_gotResolver_rawValue(ens, key, value, account, resolverAddress) ==
  IF \/ ~Truthy(resolverAddress)
     \/ resolverAddress.t # "string"
     \/ ~StartsWith0x(resolverAddress.s)
  THEN Throw(ErrorObj(<<"Could not resolve ENS resolver address for", ens>>), ens)
  ELSE Call([fn |-> "writeContract",
             address |-> resolverAddress,
             functionName |-> "setText",
             args |-> <<namehash(ens), key, value>>,
             account |-> account], ens)

setEnsTextRecord_gotResolver(ens, key, value, account, resolverAddress) ==
  IF \/ ~Truthy(resolverAddress)
     \/ resolverAddress.t # "string"
     \/ ~StartsWith0x(resolverAddress.s)
  THEN Throw(ErrorObj(<<"Could not resolve ENS resolver address for", ens>>), ens)
  ELSE Call([fn |-> "writeContract",
             address |-> resolverAddress,
             functionName |-> "setText",
             args |-> <<namehash(ens), key, IF Truthy(value) THEN value ELSE JStr("")>>,
             account |-> account], ens)

setEnsTextRecord_written(ens, hash) == Return(hash, ens)

-----------------------------------------------------------------------------
(* setEnsAddressRecord *)

setEnsAddressRecord_start(name, address, walOk, account) ==
  IF ~CanNormalize(name) THEN Throw(NormalizeError, Undefined)
  ELSE LET ens == Normalize(name) IN
    IF Truthy(address) /\ ~isAddress(address)
    THEN Throw(ErrorObj(<<"Invalid Ethereum address:">> \o address.s
                        \o <<"SetEnsAddressRecord_InvalidInput_001">>), ens)
    ELSE IF ~walOk THEN Throw(ClientError, ens)
    ELSE IF ~Truthy(account)
      THEN Throw(ErrorObj(<<"No wallet account available",
                            "SetEnsAddressRecord_NoAccount_001">>), ens)
      ELSE Call([fn |-> "writeContract",
                 address |-> registryAddress,
                 functionName |-> "setAddr",
                 args |-> <<namehash(ens), IF Truthy(address) THEN address ELSE ZeroAddress>>,
                 account |-> account], ens)

\* `result as unknown as TransactionReceipt`: the cast leaves the value as it is
setEnsAddressRecord_written(ens, writeResult) == Return(writeResult, ens)

-----------------------------------------------------------------------------
(* getRecentRegistrations *)

BlockWindow == 10000

getRecentRegistrations_start(pubOk) ==
  IF ~pubOk THEN Throw(ClientError, Undefined)
  ELSE Call([fn |-> "getBlockNumber"], Undefined)

getRecentRegistrations_gotBlock(latestBlock) ==
  Call([fn |-> "getLogs",
        address |-> "0x283Af0B28c62C092C9727F1Ee09c02CA627EB7F5",
        event |-> "NameRegistered",
        fromBlock |-> latestBlock - BlockWindow,
        toBlock |-> latestBlock,
        strict |-> TRUE], Undefined)

LogKept(log) ==
  /\ log.blockNumber.t = "bigint"
  /\ Truthy(log.transactionHash)
  /\ Truthy(log.args)
  /\ Truthy(log.args.owner)
  /\ Truthy(log.args.name)

ToRegistration(log) ==
  [name |-> log.args.name, owner |-> log.args.owner,
   blockNumber |-> log.blockNumber, transactionHash |-> log.transactionHash,
   cost |-> log.args.cost, expires |-> log.args.expires]

\* getRecentRegistrations_gotLogs looking up the primary name of an owner
getRecentRegistrations_gotLogs_fanOut(logs, count) ==
  LET filteredLogs == SelectSeq(logs, LogKept)
      sliced == JsSlice(filteredLogs, 0 - count)
      registrations == [i \in 1..Len(sliced) |-> ToRegistration(sliced[i])]
  IN IF sliced = << >>
     THEN Return([t |-> "array", items |-> << >>], Undefined)
     ELSE Call([fn |-> "getEnsName", address |-> sliced[1].args.owner], Undefined)

getRecentRegistrations_gotLogs(logs, count) ==
  LET filteredLogs == SelectSeq(logs, LogKept)
      sliced == JsSlice(filteredLogs, 0 - count)
      registrations == [i \in 1..Len(sliced) |-> ToRegistration(sliced[i])]
  IN Return([t |-> "array", items |-> Reverse(registrations)], Undefined)

-----------------------------------------------------------------------------
(* The environment: client configuration and the answers of the chain      *)

Accounts == {JNull, [t |-> "object", address |-> "signer"]}
Envs == [pubOk : BOOLEAN, walOk : BOOLEAN, account : Accounts]

TextAnswers == {JNull, JStr(""), JStr("https://a.example")}
ResolverAnswers == {JNull, JStr(<< >>), JStr(<<"0", "x", "4", "9">>),
                    JStr(<<"r", "e", "s">>), JNum(49)}
Heads == {0, 1, BlockWindow - 1, BlockWindow, BlockWindow + 1}

\* The i-th log of an answer of getLogs; the defect names the missing field
LogDefects == {"ok", "noBlock", "noTx", "noArgs", "noOwner", "noName"}
MkLog(i, d) ==
  [logIndex |-> i,
   blockNumber |-> IF d = "noBlock" THEN JNull ELSE JBigInt(100 + i),
   transactionHash |-> IF d = "noTx" THEN JNull ELSE JStr(<<"tx", i>>),
   args |-> IF d = "noArgs" THEN JNull
            ELSE [t |-> "object",
                  name |-> IF d = "noName" THEN JStr(<< >>) ELSE JStr(<<"name", i>>),
                  owner |-> IF d = "noOwner" THEN JNull ELSE JStr(<<"owner", i>>),
                  cost |-> JBigInt(i),
                  expires |-> JBigInt(1000 + i)]]
LogAnswers ==
  UNION { { [i \in 1..n |-> MkLog(i, ds[i])] : ds \in [1..n -> LogDefects] } : n \in 0..MaxLogs }

NoArgs == [name |-> "", key |-> "", value |-> JNull, address |-> JNull, count |-> 0]
NoEnv == [pubOk |-> TRUE, walOk |-> TRUE, account |-> JNull]
NoResult == [t |-> "none"]

-----------------------------------------------------------------------------
(* State machine *)

Init ==
  /\ pc = "idle"
  /\ op = "none"
  /\ args = NoArgs
  /\ env = NoEnv
  /\ normalizedEns = Undefined
  /\ calls = << >>
  /\ outcome = "none"
  /\ result = NoResult
  /\ thrown = NoThrown
  /\ errMsg = << >>
  /\ nextTx = 1
  /\ pendingTxs = {}
  /\ minedTxs = {}

\* The last call has settled with the given status and answer
Settled(status, answer) ==
  [calls EXCEPT ![Len(calls)] = [@ EXCEPT !.status = status, !.answer = answer]]

\* Carry out one step of the body of operation o invoked with a; cs are the
\* calls issued so far.  A throw lands in the catch block of o.
Proceed(step, o, a, cs) ==
  /\ normalizedEns' = step.ens
  /\ CASE step.kind = "throw" ->
            /\ pc' = "done"
            /\ outcome' = "error"
            /\ thrown' = step.error
            /\ errMsg' = Wrap(o, a, ErrorText(step.error))
            /\ result' = NoResult
            /\ calls' = cs
       [] step.kind = "call" ->
            /\ pc' = "await"
            /\ calls' = Append(cs, [call |-> step.call, status |-> "pending", answer |-> JNull])
            /\ UNCHANGED <<outcome, thrown, errMsg, result>>
       [] step.kind = "return" ->
            /\ pc' = "done"
            /\ outcome' = "return"
            /\ result' = step.value
            /\ calls' = cs
            /\ UNCHANGED <<thrown, errMsg>>

Invoke(o, a, e, step) ==
  /\ op' = o
  /\ args' = a
  /\ env' = e
  /\ Proceed(step, o, a, << >>)
  /\ UNCHANGED <<nextTx, pendingTxs, minedTxs>>

Awaiting(o, fn) ==
  /\ pc = "await"
  /\ op = o
  /\ Last(calls).call.fn = fn

\* The awaited call rejects: control passes to the catch block
Rejected ==
  /\ \E e \in Rejections :
       Proceed(Throw(e, normalizedEns), op, args, Settled("failed", JNull))
  /\ UNCHANGED <<op, args, env, nextTx, pendingTxs, minedTxs>>

Call_getEnsTextRecord ==
  /\ pc = "idle"
  /\ \E name \in Names, key \in Keys, e \in Envs :
       Invoke("getEnsTextRecord", [NoArgs EXCEPT !.name = name, !.key = key], e,
              getEnsTextRecord_start(name, key, e.pubOk))

GetEnsTextResolves ==
  /\ Awaiting("getEnsTextRecord", "getEnsText")
  /\ \E text \in TextAnswers :
       Proceed(getEnsTextRecord_gotText(normalizedEns, text), op, args, Settled("ok", text))
  /\ UNCHANGED <<op, args, env, nextTx, pendingTxs, minedTxs>>

GetEnsTextRejects ==
  /\ Awaiting("getEnsTextRecord", "getEnsText")
  /\ Rejected

Call_setEnsTextRecord ==
  /\ pc = "idle"
  /\ nextTx <= MaxTx
  /\ \E name \in Names, key \in Keys, value \in TextValues, e \in Envs :
       Invoke("setEnsTextRecord",
              [NoArgs EXCEPT !.name = name, !.key = key, !.value = value], e,
              setEnsTextRecord_start(name, key, e.pubOk, e.walOk, e.account))

GetEnsResolverResolves ==
  /\ Awaiting("setEnsTextRecord", "getEnsResolver")
  /\ \E r \in ResolverAnswers :
       Proceed(setEnsTextRecord_gotResolver(normalizedEns, args.key, args.value, env.account, r),
               op, args, Settled("ok", r))
  /\ UNCHANGED <<op, args, env, nextTx, pendingTxs, minedTxs>>

GetEnsResolverRejects ==
  /\ Awaiting("setEnsTextRecord", "getEnsResolver")
  /\ Rejected

\* writeContract resolves with the hash of the transaction it has submitted
TxHash(n) == [t |-> "hash", hash |-> n]

WriteContractResolves(step) ==
  /\ Proceed(step, op, args, Settled("ok", TxHash(nextTx)))
  /\ pendingTxs' = pendingTxs \cup {nextTx}
  /\ nextTx' = nextTx + 1
  /\ UNCHANGED <<op, args, env, minedTxs>>

SetTextWriteResolves ==
  /\ Awaiting("setEnsTextRecord", "writeContract")
  /\ WriteContractResolves(setEnsTextRecord_written(normalizedEns, TxHash(nextTx)))

SetTextWriteRejects ==
  /\ Awaiting("setEnsTextRecord", "writeContract")
  /\ Rejected

Call_setEnsAddressRecord ==
  /\ pc = "idle"
  /\ nextTx <= MaxTx
  /\ \E name \in Names, address \in Addresses, e \in Envs :
       Invoke("setEnsAddressRecord",
              [NoArgs EXCEPT !.name = name, !.address = address], e,
              setEnsAddressRecord_start(name, address, e.walOk, e.account))

SetAddrWriteResolves ==
  /\ Awaiting("setEnsAddressRecord", "writeContract")
  /\ WriteContractResolves(setEnsAddressRecord_written(normalizedEns, TxHash(nextTx)))

SetAddrWriteRejects ==
  /\ Awaiting("setEnsAddressRecord", "writeContract")
  /\ Rejected

Call_getRecentRegistrations ==
  /\ pc = "idle"
  /\ \E count \in 0..MaxCount, e \in Envs :
       Invoke("getRecentRegistrations", [NoArgs EXCEPT !.count = count], e,
              getRecentRegistrations_start(e.pubOk))

GetBlockNumberResolves ==
  /\ Awaiting("getRecentRegistrations", "getBlockNumber")
  /\ \E h \in Heads :
       Proceed(getRecentRegistrations_gotBlock(h), op, args, Settled("ok", JBigInt(h)))
  /\ UNCHANGED <<op, args, env, nextTx, pendingTxs, minedTxs>>

GetBlockNumberRejects ==
  /\ Awaiting("getRecentRegistrations", "getBlockNumber")
  /\ Rejected

GetLogsResolves ==
  /\ Awaiting("getRecentRegistrations", "getLogs")
  /\ \E logs \in LogAnswers :
       Proceed(getRecentRegistrations_gotLogs(logs, args.count), op, args,
               Settled("ok", [t |-> "array", items |-> logs]))
  /\ UNCHANGED <<op, args, env, nextTx, pendingTxs, minedTxs>>

GetLogsRejects ==
  /\ Awaiting("getRecentRegistrations", "getLogs")
  /\ Rejected

\* The chain includes a pending transaction in a block
Mine ==
  /\ \E h \in pendingTxs :
       /\ pendingTxs' = pendingTxs \ {h}
       /\ minedTxs' = minedTxs \cup {h}
  /\ UNCHANGED <<pc, op, args, env, normalizedEns, calls, outcome, result,
                 thrown, errMsg, nextTx>>

\* The caller has taken the outcome; the next invocation starts afresh
Settle ==
  /\ pc = "done"
  /\ pc' = "idle"
  /\ op' = "none"
  /\ args' = NoArgs
  /\ env' = NoEnv
  /\ normalizedEns' = Undefined
  /\ calls' = << >>
  /\ outcome' = "none"
  /\ result' = NoResult
  /\ thrown' = NoThrown
  /\ errMsg' = << >>
  /\ UNCHANGED <<nextTx, pendingTxs, minedTxs>>

Next ==
  \/ Call_getEnsTextRecord
  \/ GetEnsTextResolves
  \/ GetEnsTextRejects
  \/ Call_setEnsTextRecord
  \/ GetEnsResolverResolves
  \/ GetEnsResolverRejects
  \/ SetTextWriteResolves
  \/ SetTextWriteRejects
  \/ Call_setEnsAddressRecord
  \/ SetAddrWriteResolves
  \/ SetAddrWriteRejects
  \/ Call_getRecentRegistrations
  \/ GetBlockNumberResolves
  \/ GetBlockNumberRejects
  \/ GetLogsResolves
  \/ GetLogsRejects
  \/ Mine
  \/ Settle

Spec == Init /\ [][Next]_vars

TypeOK ==
  /\ pc \in {"idle", "await", "done"}
  /\ outcome \in {"none", "return", "error"}
  /\ nextTx \in 1..(MaxTx + 2)

-----------------------------------------------------------------------------
(* Vocabulary of the properties *)

HasTag(msg, tag) == \E i \in 1..Len(msg) : msg[i] = tag
Contains(msg, part) ==
  \E k \in 0..(Len(msg) - Len(part)) : SubSeq(msg, k + 1, k + Len(part)) = part
NumCalls(fn) == Cardinality({i \in 1..Len(calls) : calls[i].call.fn = fn})
CallNames == [i \in 1..Len(calls) |-> calls[i].call.fn]
IsPrefix(s, t) == Len(s) <= Len(t) /\ SubSeq(t, 1, Len(s)) = s
LastN(s, n) == SubSeq(s, Len(s) - n + 1, Len(s))

NameOps == {"getEnsTextRecord", "setEnsTextRecord", "setEnsAddressRecord"}
WriteOps == {"setEnsTextRecord", "setEnsAddressRecord"}
GeneralTag(o) ==
  CASE o = "getEnsTextRecord" -> "GetEnsTextRecord_General_001"
    [] o = "setEnsTextRecord" -> "SetEnsTextRecord_General_001"
    [] o = "setEnsAddressRecord" -> "SetEnsAddressRecord_General_001"
    [] o = "getRecentRegistrations" -> "GetRecentRegistrations_General_001"
NoAccountTag(o) ==
  IF o = "setEnsTextRecord" THEN "SetEnsTextRecord_NoAccount_001"
  ELSE "SetEnsAddressRecord_NoAccount_001"
InvalidAddressTags == {"SetEnsAddressRecord_InvalidInput_001",
                       "SetEnsAddressRecord_InvalidAddress_001"}
ResolverNotFoundTags == {"ResolverNotFound", "SetEnsTextRecord_ResolverNotFound_001"}

-----------------------------------------------------------------------------
(* C1: setEnsAddressRecord, given a non-null address string that is not a  *)
(* syntactically valid address (the empty string included), ends in an     *)
(* error tagged InvalidInput and issues no network call at any point of    *)
(* the invocation.  Stated for the invocations in which nothing else can   *)
(* fail first: the normalizer accepts the name and the wallet client is    *)
(* there with its account.                                                 *)
C1_InvalidAddressRejected ==
  (/\ op = "setEnsAddressRecord"
   /\ CanNormalize(args.name)
   /\ env.walOk /\ Truthy(env.account)
   /\ args.address.t = "string"
   /\ ~isAddress(args.address))
  => /\ calls = << >>
     /\ pc = "done" =>
          /\ outcome = "error"
          /\ \E tag \in InvalidAddressTags : HasTag(errMsg, tag)

-----------------------------------------------------------------------------
(* C2: getRecentRegistrations(N) returns the reverse of the last           *)
(* min(N, |V|) entries of V, the answered logs that have a block number, a *)
(* transaction identifier, an owner and a name; so at most N entries, also *)
(* for N = 0.                                                              *)
HasAllFields(log) ==
  /\ log.blockNumber # JNull
  /\ log.transactionHash # JNull
  /\ log.args # JNull
  /\ log.args.owner # JNull
  /\ log.args.name \notin {JNull, JStr(<< >>)}

C2_LastNReversed ==
  (pc = "done" /\ op = "getRecentRegistrations" /\ outcome = "return")
  => LET L == Last(calls).answer.items
         V == SelectSeq(L, HasAllFields)
         N == args.count
         expected == Reverse(LastN(V, Min(N, Len(V))))
     IN /\ Len(result.items) <= N
        /\ Len(result.items) = Len(expected)
        /\ \A i \in 1..Len(expected) :
             /\ result.items[i].transactionHash = expected[i].transactionHash
             /\ result.items[i].blockNumber = expected[i].blockNumber
             /\ result.items[i].name = expected[i].args.name
             /\ result.items[i].owner = expected[i].args.owner

-----------------------------------------------------------------------------
(* C3: setEnsAddressRecord returns only after the submitted transaction    *)
(* has been mined, and returns that transaction's receipt, not its hash.   *)
C3_ReturnsReceiptAfterConfirmation ==
  (pc = "done" /\ op = "setEnsAddressRecord" /\ outcome = "return")
  => /\ result.t = "receipt"
     /\ Last(calls).answer.hash \in minedTxs

-----------------------------------------------------------------------------
(* C4: the getLogs query of getRecentRegistrations has toBlock = h and     *)
(* fromBlock = max(0, h - 10000) for the chain head h; fromBlock is never  *)
(* negative.                                                               *)
C4_WindowClamped ==
  \A i \in 1..Len(calls) :
    calls[i].call.fn = "getLogs"
    => LET h == calls[i - 1].answer.n
       IN /\ calls[i].call.toBlock = h
          /\ calls[i].call.fromBlock = Max(0, h - 10000)
          /\ calls[i].call.fromBlock >= 0

-----------------------------------------------------------------------------
\* The client lookups of the operation succeed
ClientsReady ==
  /\ env.walOk
  /\ op = "setEnsTextRecord" => env.pubOk

(* C5, as stated: when the write client has no authenticated account,      *)
(* setEnsTextRecord and setEnsAddressRecord each end in an error carrying  *)
(* the NoAccount tag and issue no writeContract.                           *)
C5_NoAccountAlwaysTagged ==
  (op \in WriteOps /\ ClientsReady /\ ~Truthy(env.account))
  => /\ NumCalls("writeContract") = 0
     /\ pc = "done" => (outcome = "error" /\ HasTag(errMsg, NoAccountTag(op)))

\* The checks that the code runs before it looks at the account all pass
ReachesAccountCheck ==
  /\ ClientsReady
  /\ CanNormalize(args.name)
  /\ op = "setEnsAddressRecord" => (Truthy(args.address) => isAddress(args.address))

(* C5, amended: with no authenticated account, both write operations end   *)
(* in an error and issue no network call at all; the error carries the     *)
(* NoAccount tag whenever the name normalizes and (setEnsAddressRecord)    *)
(* the address passes its check, the client lookups having succeeded.      *)
C5_NoAccountNoWrite ==
  (op \in WriteOps /\ ~Truthy(env.account))
  => /\ calls = << >>
     /\ pc = "done" =>
          /\ outcome = "error"
          /\ ReachesAccountCheck => HasTag(errMsg, NoAccountTag(op))

C5_Witness ==
  /\ pc = "done"
  /\ op = "setEnsTextRecord"
  /\ ~Truthy(env.account)
  /\ HasTag(errMsg, "SetEnsTextRecord_NoAccount_001")

-----------------------------------------------------------------------------
(* C6: when getEnsResolver answers with no resolver or with a value that   *)
(* is not a 0x-prefixed string, setEnsTextRecord ends in an error carrying *)
(* the ResolverNotFound tag and submits no contract call.                  *)
C6_ResolverNotFoundTagged ==
  (/\ pc = "done"
   /\ op = "setEnsTextRecord"
   /\ Len(calls) >= 1
   /\ calls[1].status = "ok"
   /\ calls[1].answer \notin {r \in ResolverAnswers : r.t = "string" /\ StartsWith0x(r.s)})
  => /\ outcome = "error"
     /\ NumCalls("writeContract") = 0
     /\ \E tag \in ResolverNotFoundTags : HasTag(errMsg, tag)

-----------------------------------------------------------------------------
IsNormalized(n) == CanNormalize(n) /\ Normalize(n) = n

\* Names reach the network only in normalized form, and a rejected name
\* reaches it not at all
NormalizedNamesOnly ==
  /\ (op \in NameOps /\ ~CanNormalize(args.name))
       => /\ calls = << >>
          /\ pc = "done" => outcome = "error"
  /\ \A i \in 1..Len(calls) :
       LET c == calls[i].call IN
         /\ c.fn \in {"getEnsText", "getEnsResolver"} => IsNormalized(c.name)
         /\ c.fn = "writeContract" =>
              \E n \in Names : IsNormalized(n) /\ c.args[1] = namehash(n)

(* C7, as stated: every operation calls the name normalizer first, a       *)
(* rejected name ends the invocation in an error before any network call,  *)
(* and no network call is issued with an unnormalized name.                *)
C7_EveryOperationNormalizesFirst ==
  /\ NormalizedNamesOnly
  /\ calls # << >> => normalizedEns # Undefined

(* C7, amended: the three operations that take a name (getEnsTextRecord,   *)
(* setEnsTextRecord, setEnsAddressRecord) call the normalizer first, a     *)
(* rejected name ends them in an error before any network call, and no     *)
(* network call is issued with an unnormalized name; getRecentRegistrations*)
(* takes no name and issues its calls without calling the normalizer.      *)
C7_NameOperationsNormalizeFirst ==
  /\ NormalizedNamesOnly
  /\ (op \in NameOps /\ calls # << >>) => normalizedEns = Normalize(args.name)
  /\ op = "getRecentRegistrations" => normalizedEns = Undefined

C7_Witness ==
  /\ pc = "done"
  /\ op \in NameOps
  /\ ~CanNormalize(args.name)
  /\ outcome = "error"
  /\ calls = << >>

-----------------------------------------------------------------------------
(* C8: a write never passes null to the contract call: setEnsTextRecord    *)
(* submits (namehash, key, value), with the empty string for a null value; *)
(* setEnsAddressRecord submits (namehash, address) for a valid address and *)
(* (namehash, zero address) for a null one.                                *)
C8_NoNullArgument ==
  \A i \in 1..Len(calls) :
    LET c == calls[i].call IN
    c.fn = "writeContract" =>
      /\ c.args[1] = namehash(Normalize(args.name))
      /\ op = "setEnsTextRecord" =>
           /\ c.functionName = "setText"
           /\ c.args[2] = args.key
           /\ c.args[3] # JNull
           /\ args.value # JNull => c.args[3] = args.value
           /\ args.value = JNull => c.args[3] = JStr("")
      /\ op = "setEnsAddressRecord" =>
           /\ c.functionName = "setAddr"
           /\ c.args[2] # JNull
           /\ (args.address # JNull /\ isAddress(args.address)) => c.args[2] = args.address
           /\ args.address = JNull => c.args[2] = ZeroAddress

C8_Witness ==
  /\ op = "setEnsTextRecord"
  /\ args.value = JNull
  /\ NumCalls("writeContract") = 1

-----------------------------------------------------------------------------
(* C9: every invocation ends either in a result or in one error whose      *)
(* message contains the message of the original failure and the General    *)
(* tag of the operation; no failure escapes unwrapped.                     *)
C9_ResultOrWrappedError ==
  /\ pc # "done" => outcome = "none"
  /\ pc = "done" =>
       \/ /\ outcome = "return"
          /\ result # NoResult
          /\ errMsg = << >>
       \/ /\ outcome = "error"
          /\ result = NoResult
          /\ Last(errMsg) = GeneralTag(op)
          /\ Contains(errMsg, IF thrown.instanceOfError THEN thrown.message
                               ELSE thrown.string)
          /\ thrown # NoThrown

C9_Witness ==
  /\ pc = "done"
  /\ outcome = "error"
  /\ op = "getRecentRegistrations"
  /\ thrown \in Rejections
  /\ Len(calls) = 2

-----------------------------------------------------------------------------
(* C10: no operation retries or fans out: getEnsTextRecord issues at most  *)
(* one getEnsText; setEnsTextRecord at most one getEnsResolver, then at    *)
(* most one writeContract; setEnsAddressRecord at most one writeContract;  *)
(* getRecentRegistrations one getBlockNumber, then at most one getLogs and *)
(* nothing per entry; a failed call is the last call of its invocation.    *)
C10_NoRetryNoFanOut ==
  /\ op = "none" => calls = << >>
  /\ op = "getEnsTextRecord" => IsPrefix(CallNames, <<"getEnsText">>)
  /\ op = "setEnsTextRecord" => IsPrefix(CallNames, <<"getEnsResolver", "writeContract">>)
  /\ op = "setEnsAddressRecord" => IsPrefix(CallNames, <<"writeContract">>)
  /\ op = "getRecentRegistrations" =>
       /\ IsPrefix(CallNames, <<"getBlockNumber", "getLogs">>)
       /\ env.pubOk => NumCalls("getBlockNumber") = 1
  /\ \A i \in 1..Len(calls) :
       /\ calls[i].status \in {"failed", "pending"} => i = Len(calls)
       /\ calls[i].status = "failed" => (pc = "done" /\ outcome = "error")

C10_Witness ==
  /\ pc = "done"
  /\ op = "getRecentRegistrations"
  /\ outcome = "return"
  /\ Len(result.items) >= 2
  /\ CallNames = <<"getBlockNumber", "getLogs">>

====
